---- MODULE Spec2Model ----
(***************************************************************************)
(* Model of scripts/build_cross_compiler.py: CrossCompilerBuilder.run(),   *)
(* its cache-aware downloader (_download_files) and its stamped extractor  *)
(* (_extract_archive), together with the disk they work on and the process *)
(* environment (interruption, a mirror that answers or fails, a new        *)
(* revision of the manifest).                                              *)
(*                                                                         *)
(* A file is a sequence of chunks; one chunk is what one read1()/          *)
(* iter_content() step delivers and, for a tar archive, holds one member.  *)
(* cache_files, extracted and stamp_file are what is on the disk: bytes    *)
(* handed to f.write() are in write_buffer until the file object flushes.  *)
(***************************************************************************)
EXTENDS Integers, Sequences, FiniteSets, TLC

VARIABLES
  build_dir,              \* --build_dir flag: "None" or a path
  download_dir,           \* --download_dir flag: "None" or a path
  tar_default_filter,     \* what extractall() does without filter=: by Python version
  infos,                  \* the manifest returned by _file_download_infos()
  fs_dirs,                \* directories that exist, among the three flag paths
  cache_files,            \* download directory: file name -> chunks
  extracted,              \* extraction tree: tar member name -> node
  stamp_file,             \* <subdir>.extract.stamp.txt: [exists, is_file, bytes]
  pc,                     \* position of the process
  error,                  \* exception that ended the run
  idx,                    \* position of the for loop over the manifest
  downloaded_file_by_id,  \* self._downloaded_file_by_id
  file_download_count,
  file_download_total_bytes,
  file_download_cache_used_count,
  file_download_cache_total_bytes,
  sha512_hash_calculator, \* state of the hashlib object of the running download
  downloaded_bytes_count,
  response,               \* chunks of the HTTP response not yet iterated
  write_buffer,           \* chunks written to f (line 131) and not yet on the disk
  members,                \* members of the open TarFile not yet extracted
  decision,               \* history: what the loop decided per id in this run
  archive_opened,         \* history: tarfile.open() was called in this run
  served_ok,              \* history: every response of this run was the pinned content
  start,                  \* history: the disk when the run started
  prev                    \* history: how the run before ended, same manifest
                          \* ("none": no such run, or an end no property names)

vars == <<build_dir, download_dir, tar_default_filter, infos, fs_dirs, cache_files,
          extracted, stamp_file, pc, error, idx, downloaded_file_by_id,
          file_download_count, file_download_total_bytes,
          file_download_cache_used_count, file_download_cache_total_bytes,
          sha512_hash_calculator, downloaded_bytes_count, response, write_buffer,
          members, decision, archive_opened, served_ok, start, prev>>

----------------------------------------------------------------------------
(* hashlib.new("sha512"), update(), hexdigest(): an abstraction of SHA-512 *)
(* to one byte, injective on the contents of this model, rendered as       *)
(* lower-case hexadecimal characters.                                      *)

HexDigits == <<"0", "1", "2", "3", "4", "5", "6", "7",
               "8", "9", "a", "b", "c", "d", "e", "f">>

Sha512New == 51

Sha512Update(h, chunk) == (h * 3 + chunk) % 256

HexDigest(h) == <<HexDigits[(h \div 16) + 1], HexDigits[(h % 16) + 1]>>

RECURSIVE Sha512OfChunks(_, _)
Sha512OfChunks(h, chunks) ==
  IF chunks = <<>> THEN h
  ELSE Sha512OfChunks(Sha512Update(h, Head(chunks)), Tail(chunks))

Sha512Hex(chunks) == HexDigest(Sha512OfChunks(Sha512New, chunks))

ChunkLen(chunk) == 1

----------------------------------------------------------------------------
(* str.encode("utf8") and bytes.decode("utf8", errors="replace") on the    *)
(* characters a stamp file can hold.                                       *)

AsciiChars == [c \in {"0", "1", "2", "3", "4", "5", "6", "7", "8", "9"} |->
                 CASE c = "0" -> 48 [] c = "1" -> 49 [] c = "2" -> 50 [] c = "3" -> 51
                   [] c = "4" -> 52 [] c = "5" -> 53 [] c = "6" -> 54 [] c = "7" -> 55
                   [] c = "8" -> 56 [] c = "9" -> 57]
              @@ [c \in {"a", "b", "c", "d", "e", "f"} |->
                 CASE c = "a" -> 97 [] c = "b" -> 98 [] c = "c" -> 99
                   [] c = "d" -> 100 [] c = "e" -> 101 [] c = "f" -> 102]
              @@ [c \in {"A", "B", "C", "D", "E", "F"} |->
                 CASE c = "A" -> 65 [] c = "B" -> 66 [] c = "C" -> 67
                   [] c = "D" -> 68 [] c = "E" -> 69 [] c = "F" -> 70]
              @@ [c \in {"\n"} |-> 10]

Utf8Encode(str) == [i \in 1..Len(str) |-> AsciiChars[str[i]]]

DecodeByte(b) ==
  IF \E c \in DOMAIN AsciiChars : AsciiChars[c] = b
  THEN CHOOSE c \in DOMAIN AsciiChars : AsciiChars[c] = b
  ELSE "U+FFFD"

Utf8DecodeReplace(bytes) == [i \in 1..Len(bytes) |-> DecodeByte(bytes[i])]

\* f.read(n): at most the first n bytes
ReadAtMost(bytes, n) == SubSeq(bytes, 1, IF Len(bytes) < n THEN Len(bytes) ELSE n)

----------------------------------------------------------------------------
(* Upstream contents.  One chunk of a tar archive is one member.           *)

SubdirName == "binutils-2.41"

\* data is what the member holds; partial lists what the file holds after
\* each block of the copy but the last (README is longer than one block of
\* copyfileobj, and its releases begin alike; evil fits into one block)
TarMember(chunk) ==
  CASE chunk = 1 -> [name |-> <<SubdirName>>, type |-> "dir", data |-> "dir",
                     partial |-> <<>>]
    [] chunk = 2 -> [name |-> <<SubdirName, "README">>, type |-> "file",
                     data |-> "README-a", partial |-> <<"README-partial">>]
    [] chunk = 3 -> [name |-> <<SubdirName, "README">>, type |-> "file",
                     data |-> "README-b", partial |-> <<"README-partial">>]
    [] chunk = 4 -> [name |-> <<"other-1.0">>, type |-> "dir", data |-> "dir",
                     partial |-> <<>>]
    [] chunk = 5 -> [name |-> <<"..", "evil">>, type |-> "file", data |-> "evil",
                     partial |-> <<>>]

\* binutils tarballs a manifest revision may pin
BinutilsA == <<1, 2>>
BinutilsB == <<1, 3>>
BinutilsNoSubdir == <<4>>
BinutilsEscaping == <<1, 5, 2>>
BinutilsReleases == {BinutilsA, BinutilsB, BinutilsNoSubdir, BinutilsEscaping}

GccTarball == <<6>>
MpfrTarball == <<7>>
GmpTarball == <<8>>
MpcTarball == <<9>>

\* a body that is no release at all (an error page of the mirror)
ErrorPage == <<10>>

AllNames == {<<SubdirName>>, <<SubdirName, "README">>, <<"other-1.0">>, <<"..", "evil">>}

----------------------------------------------------------------------------
(* The manifest: _file_download_infos().  A revision of the script pins    *)
(* one binutils tarball by its digest; the other four entries are fixed.   *)

DownloadIds == <<"binutils", "gcc", "mpfr", "gmp", "mpc">>

FileDownloadInfo(url, tarball, subdir) ==
  [url |-> url, sha512_hexdigest |-> Sha512Hex(tarball), extracted_subdir_name |-> subdir]

FileDownloadInfos(binutils) ==
  [id \in {"binutils", "gcc", "mpfr", "gmp", "mpc"} |->
     CASE id = "binutils" ->
            FileDownloadInfo(<<"ftp.gnu.org", "gnu", "binutils", "binutils-2.41.tar.bz2">>,
                             binutils, SubdirName)
       [] id = "gcc" ->
            FileDownloadInfo(<<"ftp.gnu.org", "gnu", "gcc", "gcc-13.2.0", "gcc-13.2.0.tar.gz">>,
                             GccTarball, "gcc-13.2.0")
       [] id = "mpfr" ->
            FileDownloadInfo(<<"ftp.gnu.org", "gnu", "mpfr", "mpfr-4.2.1.tar.gz">>,
                             MpfrTarball, "mpfr-4.2.1")
       [] id = "gmp" ->
            FileDownloadInfo(<<"ftp.gnu.org", "gnu", "gmp", "gmp-6.3.0.tar.gz">>,
                             GmpTarball, "gmp-6.3.0")
       [] id = "mpc" ->
            FileDownloadInfo(<<"ftp.gnu.org", "gnu", "mpc", "mpc-1.3.1.tar.gz">>,
                             MpcTarball, "mpc-1.3.1")]

\* what a mirror may answer for the url of an entry
Mirror(id) ==
  CASE id = "binutils" -> BinutilsReleases \cup {ErrorPage}
    [] id = "gcc" -> {GccTarball, ErrorPage}
    [] id = "mpfr" -> {MpfrTarball, ErrorPage}
    [] id = "gmp" -> {GmpTarball, ErrorPage}
    [] id = "mpc" -> {MpcTarball, ErrorPage}

\* pathlib.PurePosixPath(urlparse(url).path).name
UrlPathName(url) == url[Len(url)]

\* --dest_dir, a required flag
dest_dir == "dest"

effective_build_dir == IF build_dir # "None" THEN build_dir ELSE "cwd"

effective_download_dir ==
  IF download_dir # "None" THEN download_dir ELSE effective_build_dir

DestFile(info) == <<effective_download_dir, UrlPathName(info.url)>>

\* a cache that is never used
CacheHitNever(name, info) == FALSE

\* a cache that trusts a file because it is there
CacheHitByPresence(name, info) == name \in DOMAIN cache_files

\* dest_file.is_file() and the digest of its chunks equals the declared one
CacheHit(name, info) ==
  /\ name \in DOMAIN cache_files
  /\ Sha512Hex(cache_files[name]) = info.sha512_hexdigest

\* a verification that forgets to add up the bytes it has read
BytesOfUncounted(chunks) == 0

RECURSIVE BytesOf(_)
BytesOf(chunks) ==
  IF chunks = <<>> THEN 0 ELSE ChunkLen(Head(chunks)) + BytesOf(Tail(chunks))

\* str.lower() and str.upper() on a hexadecimal string
LowerHex(str) ==
  [i \in 1..Len(str) |->
     CASE str[i] = "A" -> "a" [] str[i] = "B" -> "b" [] str[i] = "C" -> "c"
       [] str[i] = "D" -> "d" [] str[i] = "E" -> "e" [] str[i] = "F" -> "f"
       [] OTHER -> str[i]]

UpperHex(str) ==
  [i \in 1..Len(str) |->
     CASE str[i] = "a" -> "A" [] str[i] = "b" -> "B" [] str[i] = "c" -> "C"
       [] str[i] = "d" -> "D" [] str[i] = "e" -> "E" [] str[i] = "f" -> "F"
       [] OTHER -> str[i]]

\* a comparison that ignores the letter case of the declared digest
Sha512MismatchIgnoringCase(h, info) == HexDigest(h) # LowerHex(info.sha512_hexdigest)

\* a download that is never compared with the declared digest
Sha512MismatchNever(h, info) == FALSE

\* sha512_hexdigest != download_info.sha512_hexdigest, after the stream
Sha512Mismatch(h, info) == HexDigest(h) # info.sha512_hexdigest

----------------------------------------------------------------------------
(* The stamp file and the archive.                                         *)

\* no file at the path of the stamp
NoStamp == [exists |-> FALSE, is_file |-> FALSE, bytes |-> <<>>]

\* a regular file with these bytes at the path of the stamp
StampFile(bytes) == [exists |-> TRUE, is_file |-> TRUE, bytes |-> bytes]

\* a directory at the path of the stamp: open() raises IsADirectoryError
StampDirectory == [exists |-> TRUE, is_file |-> FALSE, bytes |-> <<>>]

\* an extractor that reads no more bytes than the digest has characters
StampMatchesFirstBytes(stamp, info) ==
  /\ stamp.exists
  /\ stamp.is_file
  /\ Utf8DecodeReplace(ReadAtMost(stamp.bytes, Len(info.sha512_hexdigest)))
       = info.sha512_hexdigest

\* an extractor that trusts a stamp because it is there
StampMatchesByPresence(stamp, info) == stamp.exists /\ stamp.is_file

\* the try/except/else of _extract_archive: readable and equal to the digest
StampMatches(stamp, info) ==
  /\ stamp.exists
  /\ stamp.is_file
  /\ Utf8DecodeReplace(ReadAtMost(stamp.bytes, 4 * Len(info.sha512_hexdigest)))
       = info.sha512_hexdigest

\* the chunks that are a member of a tar archive
TarChunks == 1..5

\* tarfile.open raises ReadError on an empty file and on a file that does
\* not begin with a member
IsTarArchive(chunks) == chunks # <<>> /\ Head(chunks) \in TarChunks

\* the members tarfile reads: an invalid header after the first member is
\* taken for the end of the archive
RECURSIVE ReadableChunks(_)
ReadableChunks(chunks) ==
  IF chunks = <<>> \/ Head(chunks) \notin TarChunks THEN <<>>
  ELSE <<Head(chunks)>> \o ReadableChunks(Tail(chunks))

\* tarfile.open(archive_file, "r"): the members in archive order
TarMembers(chunks) ==
  [i \in 1..Len(ReadableChunks(chunks)) |-> TarMember(ReadableChunks(chunks)[i])]

\* the directory the archive is extracted into, as an absolute path
DestPath == IF build_dir # "None" THEN <<"cwd", build_dir>> ELSE <<"cwd">>

\* os.path.realpath on a tree without links: ".." steps up (the root is its
\* own parent), "." stays, any other component steps down
RECURSIVE Resolve(_, _)
Resolve(at, name) ==
  IF name = <<>> THEN at
  ELSE IF Head(name) = ".."
       THEN Resolve(IF at = <<>> THEN at ELSE SubSeq(at, 1, Len(at) - 1), Tail(name))
       ELSE IF Head(name) = "."
            THEN Resolve(at, Tail(name))
            ELSE Resolve(Append(at, Head(name)), Tail(name))

\* a name that begins with a slash
IsAbsolute(name) == name # <<>> /\ Head(name) = "/"

\* name.lstrip("/")
RECURSIVE StripLeadingSlashes(_)
StripLeadingSlashes(name) ==
  IF IsAbsolute(name) THEN StripLeadingSlashes(Tail(name)) ELSE name

\* os.path.join(dest_dir, name), resolved: where a member of that name is
\* written
TargetPath(name) ==
  IF IsAbsolute(name) THEN Resolve(<<>>, StripLeadingSlashes(name))
  ELSE Resolve(DestPath, name)

\* the path is the directory extracted into or lies below it
Inside(path) ==
  /\ Len(path) >= Len(DestPath)
  /\ SubSeq(path, 1, Len(DestPath)) = DestPath

\* a member name that resolves outside the directory it is extracted into
Escapes(name) == ~Inside(TargetPath(name))

\* the name a member is extracted under: the 'data' filter strips leading
\* slashes, without a filter the name is used as it is
FilteredName(name) ==
  IF tar_default_filter = "data" THEN StripLeadingSlashes(name) ELSE name

\* the 'data' filter refuses a member whose stripped name resolves outside;
\* without a filter every member is extracted
FilterRefuses(member) ==
  tar_default_filter = "data" /\ Escapes(StripLeadingSlashes(member.name))

\* at is a proper ancestor of path
IsAncestor(at, path) == Len(at) < Len(path) /\ at = SubSeq(path, 1, Len(at))

\* TarFile.extract of one member: missing parents are created, a file is
\* overwritten
ExtractMember(tree, member) ==
  LET target == TargetPath(FilteredName(member.name))
  IN [n \in AllNames |->
        IF TargetPath(n) = target THEN member.data
        ELSE IF IsAncestor(TargetPath(n), target) THEN "dir"
             ELSE tree[n]]

\* makefile() up to bltn_open(targetpath, "wb"): the file is there, empty
OpenMember(tree, member) == ExtractMember(tree, [member EXCEPT !.data = "empty"])

\* what the file of a member holds, block after block of copyfileobj
CopyStages(member) == <<"empty">> \o member.partial \o <<member.data>>

\* what the file holds after one more block, given what it holds now
NextStage(member, content) ==
  LET stages == CopyStages(member)
      at == CHOOSE i \in 1..(Len(stages) - 1) : stages[i] = content
  IN stages[at + 1]

\* the node of the tree a member is extracted to
NodeOf(tree, member) ==
  LET target == TargetPath(FilteredName(member.name))
  IN tree[CHOOSE n \in AllNames : TargetPath(n) = target]

\* an extractor that does not look for the directory
IsDirUnchecked(tree, subdir) == TRUE

\* extracted_subdir.is_dir()
IsDir(tree, subdir) == tree[<<subdir>>] = "dir"

\* a stamp written as a line of text
StampPayloadWithNewline(info) ==
  StampFile(Utf8Encode(Append(info.sha512_hexdigest, "\n")))

\* write_bytes(sha512_hexdigest.encode("utf8"))
StampPayload(info) == StampFile(Utf8Encode(info.sha512_hexdigest))

----------------------------------------------------------------------------
NoRun == [cache_files |-> <<>>, extracted |-> <<>>, stamp_file |-> NoStamp]

Disk == [cache_files |-> cache_files, extracted |-> extracted, stamp_file |-> stamp_file]

NoDecision == [id \in {"binutils", "gcc", "mpfr", "gmp", "mpc"} |-> "none"]

\* the flags and the Python the script is run with: every value of each of
\* the three next to every value of each other one
Configs == {<<"None", "None", "fully_trusted">>, <<"build", "None", "data">>,
            <<"None", "downloads", "data">>, <<"build", "downloads", "fully_trusted">>}

Init ==
  /\ \E c \in Configs :
       /\ build_dir = c[1]
       /\ download_dir = c[2]
       /\ tar_default_filter = c[3]
  /\ infos \in {FileDownloadInfos(b) : b \in BinutilsReleases}
  /\ fs_dirs = {}
  /\ cache_files = <<>>
  /\ extracted = [n \in AllNames |-> "absent"]
  /\ stamp_file = NoStamp
  /\ pc = "idle"
  /\ error = "none"
  /\ idx = 0
  /\ downloaded_file_by_id = <<>>
  /\ file_download_count = 0
  /\ file_download_total_bytes = 0
  /\ file_download_cache_used_count = 0
  /\ file_download_cache_total_bytes = 0
  /\ sha512_hash_calculator = Sha512New
  /\ downloaded_bytes_count = 0
  /\ response = <<>>
  /\ write_buffer = <<>>
  /\ members = <<>>
  /\ decision = NoDecision
  /\ archive_opened = FALSE
  /\ served_ok = TRUE
  /\ start = NoRun
  /\ prev = "none"

config == <<build_dir, download_dir, tar_default_filter>>
disk == <<cache_files, extracted, stamp_file>>
counters == <<file_download_count, file_download_total_bytes,
              file_download_cache_used_count, file_download_cache_total_bytes>>
stream == <<sha512_hash_calculator, downloaded_bytes_count, response, write_buffer>>

\* _create_directory_if_not_exists
CreateDirectoryIfNotExists(dirs, dir_path) ==
  IF dir_path = "None" \/ dir_path \in dirs THEN dirs ELSE dirs \cup {dir_path}

\* an exception that nothing catches and retries
RaiseSwallowed(exc) == "download_files"

\* raise: no handler in _download_files, _extract_archive or run()
Raise(exc) == "failed"

\* main() up to run(): a new process, a new CrossCompilerBuilder
RunStart ==
  /\ pc = "idle"
  /\ pc' = "create_build_dir"
  /\ start' = Disk
  /\ UNCHANGED <<config, infos, fs_dirs, disk, error, idx, downloaded_file_by_id,
                 counters, stream, members, decision, archive_opened, served_ok, prev>>

\* run(), line 70
CreateBuildDir ==
  /\ pc = "create_build_dir"
  /\ fs_dirs' = CreateDirectoryIfNotExists(fs_dirs, build_dir)
  /\ pc' = "create_download_dir"
  /\ UNCHANGED <<config, infos, disk, error, idx, downloaded_file_by_id, counters,
                 stream, members, decision, archive_opened, served_ok, start, prev>>

\* run(), line 71, and the entry into the loop of _download_files
CreateDownloadDir ==
  /\ pc = "create_download_dir"
  /\ fs_dirs' = CreateDirectoryIfNotExists(fs_dirs, download_dir)
  /\ pc' = "download_files"
  /\ idx' = 1
  /\ UNCHANGED <<config, infos, disk, error, downloaded_file_by_id, counters,
                 stream, members, decision, archive_opened, served_ok, start, prev>>

\* one pass of the for loop up to the cache decision; on a miss the request
\* is made: it raises, or it answers and the cache file is opened "wb"
CheckCache ==
  /\ pc = "download_files"
  /\ idx <= Len(DownloadIds)
  /\ LET id == DownloadIds[idx]
         info == infos[id]
         name == UrlPathName(info.url)
     IN /\ downloaded_file_by_id' =
             [i \in DOMAIN downloaded_file_by_id \cup {id} |->
                IF i = id THEN DestFile(info) ELSE downloaded_file_by_id[i]]
        /\ IF CacheHit(name, info)
           THEN /\ file_download_cache_used_count' = file_download_cache_used_count + 1
                /\ file_download_cache_total_bytes' =
                     file_download_cache_total_bytes + BytesOf(cache_files[name])
                /\ decision' = [decision EXCEPT ![id] = "cache"]
                /\ idx' = idx + 1
                /\ UNCHANGED <<pc, error, cache_files, file_download_count, stream,
                               served_ok>>
           ELSE /\ file_download_count' = file_download_count + 1
                /\ decision' = [decision EXCEPT ![id] =
                                  IF name \in DOMAIN cache_files THEN "stale" ELSE "absent"]
                /\ \/ /\ pc' = Raise("ConnectionError")
                      /\ error' = "ConnectionError"
                      /\ served_ok' = FALSE
                      /\ UNCHANGED <<cache_files, stream>>
                   \/ /\ \E body \in Mirror(id) :
                           /\ response' = body
                           /\ served_ok' =
                                (served_ok /\ Sha512Hex(body) = info.sha512_hexdigest)
                      /\ sha512_hash_calculator' = Sha512New
                      /\ downloaded_bytes_count' = 0
                      /\ cache_files' = [n \in DOMAIN cache_files \cup {name} |->
                                           IF n = name THEN <<>> ELSE cache_files[n]]
                      /\ write_buffer' = <<>>
                      /\ pc' = "iter_content"
                      /\ UNCHANGED error
                /\ UNCHANGED <<idx, file_download_cache_used_count,
                               file_download_cache_total_bytes>>
  /\ UNCHANGED <<config, infos, fs_dirs, extracted, stamp_file,
                 file_download_total_bytes, members, archive_opened, start, prev>>

\* one chunk of response.iter_content(): written, counted, hashed.  f is a
\* buffered file: of what has been written and is not yet on the disk, any
\* number of leading chunks gets there when the buffer fills
WriteChunk ==
  /\ pc = "iter_content"
  /\ response # <<>>
  /\ LET name == UrlPathName(infos[DownloadIds[idx]].url)
         chunk == Head(response)
         written == Append(write_buffer, chunk)
     IN /\ \E k \in 0..Len(written) :
             /\ cache_files' = [cache_files EXCEPT ![name] = @ \o SubSeq(written, 1, k)]
             /\ write_buffer' = SubSeq(written, k + 1, Len(written))
        /\ file_download_total_bytes' = file_download_total_bytes + ChunkLen(chunk)
        /\ downloaded_bytes_count' = downloaded_bytes_count + ChunkLen(chunk)
        /\ sha512_hash_calculator' = Sha512Update(sha512_hash_calculator, chunk)
  /\ response' = Tail(response)
  /\ UNCHANGED <<config, infos, fs_dirs, extracted, stamp_file, pc, error, idx,
                 downloaded_file_by_id, file_download_count,
                 file_download_cache_used_count, file_download_cache_total_bytes,
                 members, decision, archive_opened, served_ok, start, prev>>

\* the with block is left: f is closed and what it buffered is on the disk
CloseFile(files, name, buffer) == [files EXCEPT ![name] = @ \o buffer]

\* the stream raises, before the body is complete or after its last chunk:
\* the with block closes the file and the exception leaves _download_files
StreamError ==
  /\ pc = "iter_content"
  /\ cache_files' = CloseFile(cache_files, UrlPathName(infos[DownloadIds[idx]].url),
                              write_buffer)
  /\ write_buffer' = <<>>
  /\ response' = <<>>
  /\ pc' = Raise("ConnectionError")
  /\ error' = "ConnectionError"
  /\ served_ok' = FALSE
  /\ UNCHANGED <<config, infos, fs_dirs, extracted, stamp_file, idx,
                 downloaded_file_by_id, counters, sha512_hash_calculator,
                 downloaded_bytes_count, members, decision, archive_opened, start, prev>>

\* the stream is exhausted: the file is closed and the digest of what was
\* received is compared
FinishDownload ==
  /\ pc = "iter_content"
  /\ response = <<>>
  /\ cache_files' = CloseFile(cache_files, UrlPathName(infos[DownloadIds[idx]].url),
                              write_buffer)
  /\ write_buffer' = <<>>
  /\ IF Sha512Mismatch(sha512_hash_calculator, infos[DownloadIds[idx]])
     THEN /\ pc' = Raise("Sha512MismatchError")
          /\ error' = "Sha512MismatchError"
          /\ idx' = idx
     ELSE /\ pc' = "download_files"
          /\ error' = error
          /\ idx' = idx + 1
  /\ UNCHANGED <<config, infos, fs_dirs, extracted, stamp_file, downloaded_file_by_id,
                 counters, sha512_hash_calculator, downloaded_bytes_count, response,
                 members, decision, archive_opened, served_ok, start, prev>>

\* the loop is over: _download_files logs the totals and returns
DownloadsDone ==
  /\ pc = "download_files"
  /\ idx > Len(DownloadIds)
  /\ pc' = "build_binutils"
  /\ UNCHANGED <<config, infos, fs_dirs, disk, error, idx, downloaded_file_by_id,
                 counters, stream, members, decision, archive_opened, served_ok,
                 start, prev>>

\* _build_binutils and _extract_archive up to tarfile.open
ReadStamp ==
  /\ pc = "build_binutils"
  /\ LET info == infos["binutils"]
         archive_file == downloaded_file_by_id["binutils"]
     IN IF StampMatches(stamp_file, info)
        THEN /\ pc' = "done"
             /\ UNCHANGED <<error, members, archive_opened>>
        ELSE /\ archive_opened' = TRUE
             /\ IF IsTarArchive(cache_files[archive_file[2]])
                THEN /\ pc' = "extractall"
                     /\ members' = TarMembers(cache_files[archive_file[2]])
                     /\ UNCHANGED error
                ELSE /\ pc' = Raise("ReadError")
                     /\ error' = "ReadError"
                     /\ UNCHANGED members
  /\ UNCHANGED <<config, infos, fs_dirs, disk, idx, downloaded_file_by_id,
                 counters, stream, decision, served_ok, start, prev>>

\* extractall(): the next member of the archive; a directory is made, a
\* file is created empty
ExtractNext ==
  /\ pc = "extractall"
  /\ members # <<>>
  /\ IF FilterRefuses(Head(members))
     THEN /\ pc' = Raise("OutsideDestinationError")
          /\ error' = "OutsideDestinationError"
          /\ UNCHANGED <<extracted, members>>
     ELSE IF Head(members).type = "file"
          THEN /\ extracted' = OpenMember(extracted, Head(members))
               /\ pc' = "copyfileobj"
               /\ UNCHANGED <<error, members>>
          ELSE /\ extracted' = ExtractMember(extracted, Head(members))
               /\ members' = Tail(members)
               /\ UNCHANGED <<pc, error>>
  /\ UNCHANGED <<config, infos, fs_dirs, cache_files, stamp_file, idx,
                 downloaded_file_by_id, counters, stream, decision, archive_opened,
                 served_ok, start, prev>>

\* makefile(): copyfileobj writes the next block of the member into the
\* file; after the last one the member is done
CopyFileObj ==
  /\ pc = "copyfileobj"
  /\ LET member == Head(members)
         content == NextStage(member, NodeOf(extracted, member))
     IN /\ extracted' = ExtractMember(extracted, [member EXCEPT !.data = content])
        /\ IF content = member.data
           THEN members' = Tail(members) /\ pc' = "extractall"
           ELSE UNCHANGED <<members, pc>>
  /\ UNCHANGED <<config, infos, fs_dirs, cache_files, stamp_file, error, idx,
                 downloaded_file_by_id, counters, stream, decision, archive_opened,
                 served_ok, start, prev>>

\* after extractall(): the directory check, then write_bytes opens the stamp
\* file "wb"
CheckAndStamp ==
  /\ pc = "extractall"
  /\ members = <<>>
  /\ LET info == infos["binutils"]
     IN IF ~IsDir(extracted, info.extracted_subdir_name)
        THEN /\ pc' = Raise("ArchiveExtractError")
             /\ error' = "ArchiveExtractError"
             /\ UNCHANGED stamp_file
        ELSE IF stamp_file.exists /\ ~stamp_file.is_file
             THEN /\ pc' = Raise("IsADirectoryError")
                  /\ error' = "IsADirectoryError"
                  /\ UNCHANGED stamp_file
             ELSE /\ pc' = "write_bytes"
                  /\ stamp_file' = StampFile(<<>>)
                  /\ UNCHANGED error
  /\ UNCHANGED <<config, infos, fs_dirs, cache_files, extracted, idx,
                 downloaded_file_by_id, counters, stream, members, decision,
                 archive_opened, served_ok, start, prev>>

\* write_bytes(): the digest is written into the opened stamp file and
\* reaches the disk when the with block of write_bytes closes the file
WriteStamp ==
  /\ pc = "write_bytes"
  /\ stamp_file' = StampPayload(infos["binutils"])
  /\ pc' = "done"
  /\ UNCHANGED <<config, infos, fs_dirs, cache_files, extracted, error, idx,
                 downloaded_file_by_id, counters, stream, members, decision,
                 archive_opened, served_ok, start, prev>>

\* the process is gone: only the disk and the history remain
ProcessGone(how, files, stamp) ==
  /\ pc' = "idle"
  /\ cache_files' = files
  /\ stamp_file' = stamp
  /\ prev' = how
  /\ error' = "none"
  /\ idx' = 0
  /\ downloaded_file_by_id' = <<>>
  /\ file_download_count' = 0
  /\ file_download_total_bytes' = 0
  /\ file_download_cache_used_count' = 0
  /\ file_download_cache_total_bytes' = 0
  /\ sha512_hash_calculator' = Sha512New
  /\ downloaded_bytes_count' = 0
  /\ response' = <<>>
  /\ write_buffer' = <<>>
  /\ members' = <<>>
  /\ decision' = NoDecision
  /\ archive_opened' = FALSE
  /\ served_ok' = TRUE
  /\ start' = NoRun
  /\ UNCHANGED <<config, infos, fs_dirs, extracted>>

\* run() returned, or an exception left main()
Exit ==
  /\ pc \in {"done", "failed"}
  /\ ProcessGone(IF pc = "done" THEN "ok"
                 ELSE IF error = "Sha512MismatchError" THEN "failed_sha512"
                 ELSE "none",
                 cache_files, stamp_file)

\* the steps of a running process
Running == {"create_build_dir", "create_download_dir", "download_files",
            "iter_content", "build_binutils", "extractall", "copyfileobj",
            "write_bytes"}

\* the signals that end the process: SIGKILL ends it where it is, SIGINT
\* raises KeyboardInterrupt, which leaves the with blocks on its way out
Signals == {"SIGKILL", "SIGINT"}

\* the cache files once the process is gone: what the file object of the
\* running download has buffered is lost with SIGKILL and flushed by the
\* close of the with block with SIGINT
FilesAfter(signal) ==
  IF signal = "SIGINT" /\ pc = "iter_content"
  THEN CloseFile(cache_files, UrlPathName(infos[DownloadIds[idx]].url), write_buffer)
  ELSE cache_files

\* the stamp files the process can leave behind: inside write_bytes the
\* digest sits in the buffer of the file object once f.write() has run; it is
\* lost with SIGKILL, and with SIGINT the close of the with block of
\* write_bytes flushes it, so that the stamp is complete when KeyboardInterrupt
\* arrives after f.write() and empty when it arrives before
StampsAfter(signal) ==
  IF signal = "SIGINT" /\ pc = "write_bytes"
  THEN {stamp_file, StampPayload(infos["binutils"])}
  ELSE {stamp_file}

\* what the interrupted run leaves in the history: "interrupted_before_stamp"
\* when it is interrupted after the extraction has finished and goes without
\* the digest in the stamp file
Interrupted(stamp) ==
  IF /\ (pc = "extractall" /\ members = <<>>) \/ pc = "write_bytes"
     /\ stamp # StampPayload(infos["binutils"])
  THEN "interrupted_before_stamp"
  ELSE "interrupted"

\* the process is terminated from outside while it runs
Interrupt ==
  /\ pc \in Running
  /\ \E signal \in Signals :
       \E stamp \in StampsAfter(signal) :
         ProcessGone(Interrupted(stamp), FilesAfter(signal), stamp)

\* a new revision of the script pins another binutils tarball
ChangeManifest ==
  /\ pc = "idle"
  /\ \E b \in BinutilsReleases :
       /\ FileDownloadInfos(b) # infos
       /\ infos' = FileDownloadInfos(b)
  /\ prev' = "none"
  /\ UNCHANGED <<config, fs_dirs, disk, pc, error, idx, downloaded_file_by_id, counters,
                 stream, members, decision, archive_opened, served_ok, start>>

Next ==
  \/ RunStart
  \/ CreateBuildDir
  \/ CreateDownloadDir
  \/ CheckCache
  \/ WriteChunk
  \/ StreamError
  \/ FinishDownload
  \/ DownloadsDone
  \/ ReadStamp
  \/ ExtractNext
  \/ CopyFileObj
  \/ CheckAndStamp
  \/ WriteStamp
  \/ Exit
  \/ Interrupt
  \/ ChangeManifest

(* A second specification: the same program started on inputs it does not   *)
(* produce itself: a manifest whose binutils digest is written in upper    *)
(* case, and a stamp file with other content than a run would write.       *)

\* the manifest with the binutils digest written in upper case
UpperCaseManifest(binutils) ==
  [FileDownloadInfos(binutils) EXCEPT
     !["binutils"].sha512_hexdigest = UpperHex(@)]

\* stamp files next to a digest: none, a directory in its place (a stamp
\* that cannot be read), the digest, the digest and a newline,
\* the digest in the other letter case, an undecodable byte before the
\* digest, and the digest followed by more than the read reaches
StampInputs(digest) ==
  {NoStamp, StampDirectory} \cup
  {StampFile(b) :
     b \in {Utf8Encode(digest),
            Utf8Encode(Append(digest, "\n")),
            Utf8Encode(IF digest = UpperHex(digest) THEN LowerHex(digest)
                       ELSE UpperHex(digest)),
            <<255>> \o Utf8Encode(digest),
            Utf8Encode(digest \o digest \o digest \o digest \o digest)}}

\* the tree a finished extraction of the archive leaves
RECURSIVE ExtractAll(_, _)
ExtractAll(tree, ms) ==
  IF ms = <<>> THEN tree ELSE ExtractAll(ExtractMember(tree, Head(ms)), Tail(ms))

InitInputs ==
  /\ build_dir = "None"
  /\ download_dir = "None"
  /\ tar_default_filter = "fully_trusted"
  /\ infos \in {FileDownloadInfos(BinutilsA), UpperCaseManifest(BinutilsA)}
  /\ fs_dirs = {}
  /\ cache_files = <<>>
  /\ stamp_file \in StampInputs(infos["binutils"].sha512_hexdigest)
  /\ extracted = IF stamp_file.exists
                 THEN ExtractAll([n \in AllNames |-> "absent"], TarMembers(BinutilsA))
                 ELSE [n \in AllNames |-> "absent"]
  /\ pc = "idle"
  /\ error = "none"
  /\ idx = 0
  /\ downloaded_file_by_id = <<>>
  /\ file_download_count = 0
  /\ file_download_total_bytes = 0
  /\ file_download_cache_used_count = 0
  /\ file_download_cache_total_bytes = 0
  /\ sha512_hash_calculator = Sha512New
  /\ downloaded_bytes_count = 0
  /\ response = <<>>
  /\ write_buffer = <<>>
  /\ members = <<>>
  /\ decision = NoDecision
  /\ archive_opened = FALSE
  /\ served_ok = TRUE
  /\ start = NoRun
  /\ prev = "none"

\* the runs on such an input: the manifest stays the one given
NextInputs ==
  \/ RunStart
  \/ CreateBuildDir
  \/ CreateDownloadDir
  \/ CheckCache
  \/ WriteChunk
  \/ StreamError
  \/ FinishDownload
  \/ DownloadsDone
  \/ ReadStamp
  \/ ExtractNext
  \/ CopyFileObj
  \/ CheckAndStamp
  \/ WriteStamp
  \/ Exit
  \/ Interrupt

SpecInputs == InitInputs /\ [][NextInputs]_vars

Spec == Init /\ [][Next]_vars

TypeOK ==
  /\ pc \in {"idle", "done", "failed"} \cup Running
  /\ error \in {"none", "ConnectionError", "Sha512MismatchError", "ReadError",
                "OutsideDestinationError", "ArchiveExtractError", "IsADirectoryError"}
  /\ idx \in 0..(Len(DownloadIds) + 1)

----------------------------------------------------------------------------
(* Vocabulary of the properties.                                           *)

Ids == {DownloadIds[i] : i \in 1..Len(DownloadIds)}

CacheName(id) == UrlPathName(infos[id].url)

Declared(id) == infos[id].sha512_hexdigest

\* the entry the loop is at
CurrentId == DownloadIds[idx]

\* the cache file of id exists and hashes to the declared digest
CacheGood(id) ==
  /\ CacheName(id) \in DOMAIN cache_files
  /\ Sha512Hex(cache_files[CacheName(id)]) = Declared(id)

Killed == pc' = "idle"

\* the bytes the running download has written: on the disk or still buffered
Received == cache_files[CacheName(CurrentId)] \o write_buffer

\* an empty regular file at the path of the stamp
EmptyStamp == StampFile(<<>>)

\* every member of the archive is in the tree as the archive holds it
FullyExtracted(chunks) ==
  \A k \in 1..Len(chunks) : extracted[TarMember(chunks[k]).name] = TarMember(chunks[k]).data

\* every member name of the archive is in the tree
NamesExtracted(chunks) ==
  \A k \in 1..Len(chunks) : extracted[TarMember(chunks[k]).name] # "absent"

\* the release the manifest pins for binutils
PinnedBinutils ==
  CHOOSE b \in BinutilsReleases : Sha512Hex(b) = Declared("binutils")

\* a release as the spec expects it: the subdirectory is in it, nothing escapes
ProperRelease(chunks) ==
  /\ \E k \in 1..Len(chunks) : TarMember(chunks[k]).name = <<SubdirName>>
  /\ \A k \in 1..Len(chunks) : ~Escapes(TarMember(chunks[k]).name)

----------------------------------------------------------------------------
\* C1 (idempotence): a run that follows a successful run with the same
\* manifest and directories downloads nothing (every entry it has processed
\* was a cache hit), never opens the archive and does not fail.
C1_Idempotence ==
  prev = "ok" =>
    /\ file_download_count = 0
    /\ pc \notin {"iter_content", "extractall", "copyfileobj", "write_bytes", "failed"}
    /\ ~archive_opened
    /\ \A i \in 1..Len(DownloadIds) :
         decision[DownloadIds[i]] = (IF i < idx THEN "cache" ELSE "none")
    /\ pc = "done" => file_download_cache_used_count = Len(DownloadIds)

C1_Witness ==
  prev = "ok" /\ pc = "done" /\ file_download_cache_used_count = Len(DownloadIds)

\* C2 (integrity enforcement): when the stream of a download ends without
\* raising and the bytes received hash to another digest than the declared
\* one, the next step of the run is the failure with Sha512MismatchError; a
\* run that failed so ends there; and a run that was served other bytes than
\* the declared ones, whether it has failed yet or not and however the
\* stream ended, has not opened the archive and has left the tree and the
\* stamp as they were when it started.
C2_IntegrityEnforcement ==
  [][/\ (/\ pc = "iter_content"
         /\ response = <<>>
         /\ Sha512Hex(Received) # Declared(CurrentId)
         /\ ~Killed
         /\ error' # "ConnectionError")
        => (pc' = "failed" /\ error' = "Sha512MismatchError")
     /\ error' = "Sha512MismatchError" => pc' = "failed"
     /\ (pc' # "idle" /\ ~served_ok')
        => /\ pc' \in {"iter_content", "failed"}
           /\ ~archive_opened'
           /\ extracted' = start'.extracted
           /\ stamp_file' = start'.stamp_file
     /\ error = "Sha512MismatchError" => pc' = "idle"]_vars

C2_Witness ==
  /\ pc = "failed"
  /\ error = "Sha512MismatchError"
  /\ Sha512Hex(cache_files[CacheName(CurrentId)]) # Declared(CurrentId)
  /\ ~StampMatches(stamp_file, infos["binutils"])

\* the cache file of id was there, with another digest, when the run started
StaleAtStart(id) ==
  /\ CacheName(id) \in DOMAIN start.cache_files
  /\ Sha512Hex(start.cache_files[CacheName(id)]) # Declared(id)

\* C3 (self-healing cache): an entry whose cache file was there with a wrong
\* digest when the run started is downloaded again over that file; once the
\* loop is past it the file hashes to the declared digest, and the run fails
\* at it only if the source did not serve the bytes that hash to it (it
\* served others, or the request or the stream raised).
C3_SelfHealingCache ==
  \A i \in 1..Len(DownloadIds) :
    LET id == DownloadIds[i] IN
    (pc # "idle" /\ StaleAtStart(id)) =>
      /\ CacheName(id) \in DOMAIN cache_files
      /\ (idx > i \/ (idx = i /\ pc \in {"iter_content", "failed"}))
           => (decision[id] = "stale" /\ file_download_count >= 1)
      /\ idx > i => CacheGood(id)
      /\ (idx = i /\ pc = "iter_content")
           => \E body \in Mirror(id) : Received \o response = body
      /\ (idx = i /\ pc = "failed")
           => /\ error \in {"Sha512MismatchError", "ConnectionError"}
              /\ ~served_ok
              /\ error = "Sha512MismatchError" => ~CacheGood(id)

C3_Witness ==
  \E i \in 1..Len(DownloadIds) :
    /\ StaleAtStart(DownloadIds[i])
    /\ idx > i
    /\ CacheGood(DownloadIds[i])
    /\ decision[DownloadIds[i]] = "stale"

\* the stamp was there when the run started, with other content than the digest
StaleStampAtStart ==
  /\ start.stamp_file.exists
  /\ start.stamp_file.bytes # Utf8Encode(Declared("binutils"))

\* C4 (stale-marker invalidation): with a stamp that holds another digest,
\* _extract_archive does not return before opening the archive; when it
\* returns normally every member of the archive has been extracted and the
\* stamp holds exactly the current digest; until write_bytes opens the stamp
\* it is untouched, and between that and the write it is empty.
C4_StaleMarkerInvalidation ==
  (pc # "idle" /\ StaleStampAtStart) =>
    /\ pc = "done" =>
         /\ archive_opened
         /\ FullyExtracted(cache_files[CacheName("binutils")])
         /\ IsDir(extracted, SubdirName)
         /\ stamp_file.exists
         /\ stamp_file.bytes = Utf8Encode(Declared("binutils"))
    /\ pc = "write_bytes" =>
         /\ stamp_file = EmptyStamp
         /\ FullyExtracted(cache_files[CacheName("binutils")])
         /\ IsDir(extracted, SubdirName)
    /\ pc \notin {"done", "write_bytes"} => stamp_file = start.stamp_file

C4_Witness ==
  StaleStampAtStart /\ pc = "done" /\ stamp_file # start.stamp_file

\* C5 (extraction completeness check): when extractall() has finished and the
\* expected directory is no directory, the next step is the failure with
\* ArchiveExtractError and it leaves the stamp alone; in a run that failed so
\* the stamp is what it was when the run started, absent or stale.
C5_ExtractionCompletenessCheck ==
  [][/\ (/\ pc = "extractall"
         /\ members = <<>>
         /\ ~(extracted[<<infos["binutils"].extracted_subdir_name>>] = "dir")
         /\ ~Killed)
        => /\ pc' = "failed"
           /\ error' = "ArchiveExtractError"
           /\ stamp_file' = stamp_file
     /\ error' = "ArchiveExtractError"
        => /\ stamp_file' = start'.stamp_file
           /\ extracted'[<<infos["binutils"].extracted_subdir_name>>] # "dir"]_vars

\* (a stale stamp next to a missing directory does not arise from the runs of
\* the program itself: the stamp is written only once the directory is there
\* and nothing removes the directory)
C5_Witness ==
  /\ pc = "failed"
  /\ error = "ArchiveExtractError"
  /\ archive_opened
  /\ members = <<>>
  /\ ~stamp_file.exists

\* C6 (crash recovery): the run after an interrupted run, with the same
\* manifest and a source that serves the release the manifest pins (a proper
\* archive: it holds the expected directory and nothing that escapes), does
\* not fail; when it is done every cache file hashes to its declared digest,
\* the directory and every member name of the archive are there and the stamp
\* holds the binutils digest; after an interruption between extraction and
\* the stamp write, one that went without the digest in the stamp file, that
\* run has extracted again (a KeyboardInterrupt inside write_bytes after
\* f.write() leaves the complete stamp and counts as "interrupted").
C6_CrashRecovery ==
  (/\ prev \in {"interrupted", "interrupted_before_stamp"}
   /\ served_ok
   /\ ProperRelease(PinnedBinutils)) =>
    /\ pc # "failed"
    /\ pc = "done" =>
         /\ \A id \in Ids : CacheGood(id)
         /\ IsDir(extracted, SubdirName)
         /\ NamesExtracted(cache_files[CacheName("binutils")])
         /\ stamp_file.exists
         /\ stamp_file.bytes = Utf8Encode(Declared("binutils"))
    /\ (prev = "interrupted_before_stamp" /\ pc = "done") =>
         (archive_opened /\ FullyExtracted(cache_files[CacheName("binutils")]))

C6_Witness ==
  /\ prev = "interrupted_before_stamp"
  /\ served_ok
  /\ ProperRelease(PinnedBinutils)
  /\ pc = "done"
  /\ archive_opened

C6_WitnessTruncated ==
  /\ prev = "interrupted"
  /\ pc = "done"
  /\ \E id \in Ids : decision[id] = "stale"
  /\ ProperRelease(PinnedBinutils)
  /\ served_ok

\* C7 (the marker proves completeness for the current manifest): whenever
\* _extract_archive returns without extracting, the tree holds every member
\* of the archive with the current digest as that archive holds it.
C7_MarkerProvesCompleteness ==
  (pc = "done" /\ ~archive_opened) =>
    FullyExtracted(cache_files[CacheName("binutils")])

\* C8 (cache decision): the pass of the loop for an entry goes to the network
\* exactly when there is no cache file or its digest differs from the declared
\* one: the request is counted, and it either raises, leaving the file as it
\* is, or answers, and the file is opened empty; on a hit nothing is
\* requested, the file is left as it is and the loop goes on to the next
\* entry.
C8_CacheDecision ==
  [][(pc = "download_files" /\ idx <= Len(DownloadIds) /\ ~Killed) =>
       LET name == CacheName(CurrentId)
           miss == \/ name \notin DOMAIN cache_files
                   \/ Sha512Hex(cache_files[name]) # Declared(CurrentId)
       IN /\ (pc' \in {"iter_content", "failed"}) = miss
          /\ file_download_count' = file_download_count + (IF miss THEN 1 ELSE 0)
          /\ (miss /\ pc' = "iter_content") =>
               (cache_files'[name] = <<>> /\ response' \in Mirror(CurrentId))
          /\ (miss /\ pc' = "failed") =>
               (error' = "ConnectionError" /\ cache_files' = cache_files)
          /\ ~miss => /\ cache_files' = cache_files
                      /\ response' = response
                      /\ idx' = idx + 1
                      /\ pc' = "download_files"]_vars

C8_Witness ==
  /\ pc = "download_files"
  /\ file_download_cache_used_count > 0
  /\ file_download_count > 0
  /\ \E id \in Ids : decision[id] = "stale"

\* C9 (verified-result postcondition): when _download_files has returned,
\* every entry has its cache file recorded in _downloaded_file_by_id, and that
\* file exists and hashes to the declared digest of the entry.
C9_VerifiedResult ==
  pc = "build_binutils" =>
    \A id \in Ids :
      /\ id \in DOMAIN downloaded_file_by_id
      /\ downloaded_file_by_id[id][1] = effective_download_dir
      /\ downloaded_file_by_id[id][2] \in DOMAIN cache_files
      /\ Sha512Hex(cache_files[downloaded_file_by_id[id][2]]) = Declared(id)

C9_Witness ==
  /\ pc = "build_binutils"
  /\ file_download_count > 0
  /\ file_download_cache_used_count > 0

\* C10 (extraction containment): nothing is ever created at a name that
\* resolves outside the directory the archive is extracted into.
C10_ExtractionContainment ==
  \A n \in AllNames : Escapes(n) => extracted[n] = "absent"

\* C11 (a failed download is left on disk but never trusted): when a run has
\* failed with Sha512MismatchError the cache file of the entry is there and
\* holds the bytes received, which hash to another digest than the declared
\* one; in the run after it, with the same manifest, that file is found, is
\* no cache hit and the entry is downloaded again.
C11_FailedDownloadNotTrusted ==
  /\ (pc = "failed" /\ error = "Sha512MismatchError") =>
       /\ CacheName(CurrentId) \in DOMAIN cache_files
       /\ cache_files[CacheName(CurrentId)] \in Mirror(CurrentId)
       /\ Len(cache_files[CacheName(CurrentId)]) = downloaded_bytes_count
       /\ Sha512Hex(cache_files[CacheName(CurrentId)]) # Declared(CurrentId)
  /\ (prev = "failed_sha512" /\ pc # "idle") =>
       \E i \in 1..Len(DownloadIds) :
         LET id == DownloadIds[i] IN
         /\ StaleAtStart(id)
         /\ start.cache_files[CacheName(id)] \in Mirror(id)
         /\ \A j \in 1..(i - 1) : ~StaleAtStart(DownloadIds[j])
         /\ decision[id] # "cache"
         /\ (idx > i \/ (idx = i /\ pc \in {"iter_content", "failed"}))
              => (decision[id] = "stale" /\ file_download_count >= 1)

C11_Witness ==
  /\ prev = "failed_sha512"
  /\ \E i \in 1..Len(DownloadIds) :
       /\ StaleAtStart(DownloadIds[i])
       /\ idx = i
       /\ pc = "iter_content"
       /\ decision[DownloadIds[i]] = "stale"
       /\ start.cache_files[CacheName(DownloadIds[i])] = ErrorPage

\* the entries this run has fetched from the network
Fetched == {id \in Ids : decision[id] \in {"stale", "absent"}}

\* C12 (fail-fast without retry): every download the run has started is the
\* one download of a distinct entry; an exception is the end of the run: the
\* entries after the one it occurred at are never looked at, a
\* Sha512MismatchError leaves the archive unopened, and the only step left is
\* the end of the process.
C12_FailFastWithoutRetry ==
  [][/\ file_download_count' = Cardinality(Fetched')
     /\ error' # "none" =>
          /\ pc' = "failed"
          /\ \A j \in 1..Len(DownloadIds) : j > idx' => decision'[DownloadIds[j]] = "none"
          /\ error' \in {"Sha512MismatchError", "ConnectionError"} =>
               (~archive_opened' /\ idx' <= Len(DownloadIds) /\ CurrentId' \in Fetched')
          /\ error' = "ArchiveExtractError" => members' = <<>>
     /\ error # "none" => (pc' = "idle" /\ disk' = disk)]_vars

C12_Witness ==
  /\ pc = "failed"
  /\ error = "Sha512MismatchError"
  /\ idx = 2
  /\ file_download_count = 2
  /\ decision["mpfr"] = "none"

\* the declared digest of id has a letter in upper case
DeclaredInUpperCase(id) == Declared(id) # LowerHex(Declared(id))

\* C13 as claimed (the comparison with the manifest ignores letter case): a
\* download whose digest equals the declared one up to letter case does not
\* end in Sha512MismatchError, and a cached file whose digest equals it up to
\* letter case is not downloaded again.
C13_CaseInsensitiveComparison ==
  /\ (pc = "failed" /\ error = "Sha512MismatchError") =>
       Sha512Hex(cache_files[CacheName(CurrentId)]) # LowerHex(Declared(CurrentId))
  /\ \A id \in Ids :
       decision[id] = "stale" =>
         Sha512Hex(start.cache_files[CacheName(id)]) # LowerHex(Declared(id))

\* C13 as amended (the comparison is exact): a cached file is a hit exactly
\* when its lower-case hexadecimal digest equals the declared string character
\* for character, and a download fails exactly when its digest differs so; an
\* entry whose declared digest has an upper-case letter is never a cache hit
\* and the loop never gets past it.
C13_ExactComparison ==
  /\ (pc = "failed" /\ error = "Sha512MismatchError") =>
       Sha512Hex(cache_files[CacheName(CurrentId)]) # Declared(CurrentId)
  /\ \A i \in 1..Len(DownloadIds) :
       LET id == DownloadIds[i] IN
       /\ decision[id] = "stale" =>
            Sha512Hex(start.cache_files[CacheName(id)]) # Declared(id)
       /\ decision[id] = "cache" =>
            /\ Sha512Hex(start.cache_files[CacheName(id)]) = Declared(id)
            /\ cache_files[CacheName(id)] = start.cache_files[CacheName(id)]
       /\ idx > i => Sha512Hex(cache_files[CacheName(id)]) = Declared(id)
       /\ DeclaredInUpperCase(id) => (decision[id] # "cache" /\ idx <= i)

C13_Witness ==
  /\ pc = "failed"
  /\ error = "Sha512MismatchError"
  /\ DeclaredInUpperCase(CurrentId)
  /\ decision[CurrentId] = "stale"
  /\ Sha512Hex(start.cache_files[CacheName(CurrentId)]) = LowerHex(Declared(CurrentId))
  /\ Sha512Hex(cache_files[CacheName(CurrentId)]) = LowerHex(Declared(CurrentId))

\* C14 (install directory creation): once run() has completed successfully
\* the directory given by --dest_dir exists.
C14_DestDirCreated ==
  pc = "done" => dest_dir \in fs_dirs

\* C18 (the skip decision is exact equality): _extract_archive returns
\* without opening the archive exactly when the stamp file is there and its
\* bytes are the bytes of the declared digest, no more and no other; without a
\* stamp, with a byte after the digest, with the digest in another letter
\* case or with an undecodable byte it opens the archive and extracts all of
\* its members.
C18_SkipIsExactEquality ==
  [][(pc = "build_binutils" /\ ~Killed) =>
       LET exact == /\ stamp_file.exists
                    /\ stamp_file.bytes = Utf8Encode(Declared("binutils"))
       IN /\ (pc' = "done") = exact
          /\ archive_opened' = ~exact
          /\ ~exact => /\ pc' = "extractall"
                       /\ Len(members') = Len(cache_files[CacheName("binutils")])
          /\ stamp_file' = stamp_file]_vars

C18_Witness ==
  /\ pc = "extractall"
  /\ members # <<>>
  /\ stamp_file.exists
  /\ stamp_file.bytes = Utf8Encode(Append(Declared("binutils"), "\n"))

C18_WitnessOtherCase ==
  /\ pc = "extractall"
  /\ stamp_file.exists
  /\ stamp_file.bytes = Utf8Encode(UpperHex(Declared("binutils")))
  /\ DeclaredInUpperCase("binutils") = FALSE
  /\ UpperHex(Declared("binutils")) # Declared("binutils")

C18_WitnessLongRead ==
  /\ pc = "extractall"
  /\ stamp_file.exists
  /\ Len(stamp_file.bytes) > 4 * Len(Declared("binutils"))
  /\ SubSeq(stamp_file.bytes, 1, Len(Declared("binutils"))) = Utf8Encode(Declared("binutils"))

C18_WitnessUnreadable ==
  /\ pc = "extractall"
  /\ members # <<>>
  /\ stamp_file = StampDirectory

C18_WitnessSkip ==
  /\ pc = "done"
  /\ ~archive_opened
  /\ start.stamp_file.bytes = Utf8Encode(Declared("binutils"))

\* C15 (marker write ordering): the stamp file changes only in write_bytes,
\* which is entered after a finished extractall() with the expected directory
\* in place: it is opened empty and then holds the declared digest, written
\* when write_bytes returns or flushed by its with block when KeyboardInterrupt
\* ends the process inside it; whenever
\* the stamp differs from what it was when the run started, the run has
\* opened the archive, has extracted all of its members and has found the
\* directory.
C15_MarkerWriteOrdering ==
  [][/\ stamp_file' # stamp_file =>
          /\ archive_opened
          /\ members = <<>>
          /\ extracted[<<infos["binutils"].extracted_subdir_name>>] = "dir"
          /\ extracted' = extracted
          /\ \/ /\ pc = "extractall"
                /\ pc' = "write_bytes"
                /\ stamp_file' = EmptyStamp
             \/ /\ pc = "write_bytes"
                /\ pc' \in {"done", "idle"}
                /\ stamp_file = EmptyStamp
                /\ stamp_file' = StampFile(Utf8Encode(Declared("binutils")))
     /\ (pc' # "idle" /\ stamp_file' # start'.stamp_file) =>
          /\ pc' \in {"write_bytes", "done"}
          /\ archive_opened'
          /\ members' = <<>>
          /\ IsDir(extracted', SubdirName)
          /\ FullyExtracted(cache_files[CacheName("binutils")])']_vars

C15_Witness ==
  /\ pc = "done"
  /\ ~start.stamp_file.exists
  /\ stamp_file.exists
  /\ extracted[<<"..", "evil">>] = "absent"

\* the entries the loop is past
Processed == {DownloadIds[j] : j \in 1..(IF idx = 0 THEN 0 ELSE idx - 1)}

\* C16 (pipeline ordering): while the loop is at an entry every entry before
\* it has been decided and its cache file hashes to its declared digest, and
\* no later entry has been decided or has had its cache file touched; a
\* download is only ever in progress for the entry the loop is at; the
\* archive is opened only when the loop is past all entries, binutils among
\* them.
C16_PipelineOrdering ==
  pc # "idle" =>
    /\ \A id \in Processed : decision[id] # "none" /\ CacheGood(id)
    /\ \A j \in 1..Len(DownloadIds) :
         j > idx =>
           /\ decision[DownloadIds[j]] = "none"
           /\ DownloadIds[j] \notin DOMAIN downloaded_file_by_id
           /\ IF CacheName(DownloadIds[j]) \in DOMAIN cache_files
              THEN /\ CacheName(DownloadIds[j]) \in DOMAIN start.cache_files
                   /\ cache_files[CacheName(DownloadIds[j])]
                        = start.cache_files[CacheName(DownloadIds[j])]
              ELSE CacheName(DownloadIds[j]) \notin DOMAIN start.cache_files
    /\ pc = "iter_content" => (idx <= Len(DownloadIds) /\ CurrentId \in Fetched)
    /\ (response # <<>> \/ write_buffer # <<>>) => pc = "iter_content"
    /\ (archive_opened \/ pc \in {"build_binutils", "extractall", "copyfileobj",
                                  "write_bytes", "done"}) =>
         /\ Processed = Ids
         /\ CacheGood("binutils")
    /\ (~archive_opened) => (extracted = start.extracted /\ stamp_file = start.stamp_file)

C16_Witness ==
  /\ pc = "extractall"
  /\ members # <<>>
  /\ Fetched = {"binutils", "mpc"}
  /\ decision["gmp"] = "cache"

\* the run started on a disk where every entry is a hit and the stamp matches
NoOpStart ==
  /\ pc # "idle"
  /\ \A id \in Ids :
       /\ CacheName(id) \in DOMAIN start.cache_files
       /\ Sha512Hex(start.cache_files[CacheName(id)]) = Declared(id)
  /\ start.stamp_file.exists
  /\ start.stamp_file.bytes = Utf8Encode(Declared("binutils"))

\* C17 (a no-op run leaves the disk unchanged): in a run that started with
\* every cache file hashing to its declared digest and the stamp equal to the
\* binutils digest, the cache files, the extracted tree and the stamp are at
\* every point what they were when the run started, and the run does not fail.
C17_NoOpRunLeavesDiskUnchanged ==
  NoOpStart =>
    /\ cache_files = start.cache_files
    /\ extracted = start.extracted
    /\ stamp_file = start.stamp_file
    /\ pc # "failed"
    /\ Fetched = {}

C17_Witness ==
  /\ NoOpStart
  /\ pc = "done"
  /\ Disk = start
  /\ prev # "ok"

RECURSIVE SizeOfFiles(_)
SizeOfFiles(ids) ==
  IF ids = {} THEN 0
  ELSE LET id == CHOOSE x \in ids : TRUE
       IN Len(cache_files[CacheName(id)]) + SizeOfFiles(ids \ {id})

\* the entries this run has decided one way or the other
Decided == {id \in Ids : decision[id] # "none"}

CacheHits == {id \in Ids : decision[id] = "cache"}

\* C19 (the counters partition the manifest): at every point of the run
\* file_download_count is the number of entries fetched and
\* file_download_cache_used_count the number of cache hits, every entry the
\* loop is past is in exactly one of the two, file_download_total_bytes is the
\* size of the files fetched so far plus what the running download has
\* written, and file_download_cache_total_bytes is the size of the cache-hit
\* files; when _download_files returns the two counts sum to the number of
\* entries and file_download_total_bytes is the size of the fetched files.
C19_CountersPartition ==
  pc # "idle" =>
    /\ file_download_count = Cardinality(Fetched)
    /\ file_download_cache_used_count = Cardinality(CacheHits)
    /\ Processed \subseteq Decided
    /\ Decided \subseteq Processed \cup (IF idx \in 1..Len(DownloadIds) THEN {CurrentId} ELSE {})
    /\ Cardinality(Fetched \cap CacheHits) = 0
    /\ pc = "iter_content" => downloaded_bytes_count = Len(Received)
    /\ pc # "failed" =>
         file_download_total_bytes =
           SizeOfFiles(Fetched \cap Processed)
             + (IF pc = "iter_content" THEN downloaded_bytes_count ELSE 0)
    /\ file_download_cache_total_bytes = SizeOfFiles(CacheHits)
    /\ pc \in {"build_binutils", "extractall", "copyfileobj", "write_bytes", "done"} =>
         /\ file_download_count + file_download_cache_used_count = Len(DownloadIds)
         /\ file_download_total_bytes = SizeOfFiles(Fetched)

C19_Witness ==
  /\ pc = "build_binutils"
  /\ file_download_count = 2
  /\ file_download_cache_used_count = 3
  /\ file_download_total_bytes = 4
  /\ file_download_cache_total_bytes = 3

====
